---- MODULE Spec2Model ----
(***************************************************************************)
(* Model of scripts/generate-i18n-pages.mjs: the build-time generator that *)
(* writes one localized copy of every built HTML page per locale and       *)
(* refreshes the hreflang links of the default-locale page in place.       *)
(*                                                                         *)
(* JavaScript strings that the code inspects character by character        *)
(* (file names, locale codes, hrefs, URLs) are sequences of one-character  *)
(* strings.  Texts the code only copies (titles, descriptions) are TLA+    *)
(* strings.                                                                *)
(***************************************************************************)
EXTENDS Naturals, Sequences, FiniteSets, TLC

VARIABLES
  SITE_URL,         \* line 11
  BASE_PATH,        \* line 12
  languages,        \* lines 14-16
  localeFiles,      \* public/locales/<lang>/{common,tools}.json
  distFiles,        \* regular files directly in DIST_DIR: name -> content
  distDirs,         \* subdirectories of DIST_DIR: name -> (file name -> content)
  pc,               \* position of generateI18nPages
  runs,             \* number of invocations of the script so far
  htmlFiles,        \* line 46
  fileIdx,          \* position of the loop of line 50
  originalContent,  \* line 52
  translationKey,   \* lines 55-58
  langIdx,          \* position of the loop of line 60
  localesDir,       \* LOCALES_DIR: whether it exists, and its entries
  distExists,       \* whether DIST_DIR exists
  ioMayFail,        \* whether calls of fs may throw in this run
  exitCode,         \* the status the process ends with
  stderr,           \* what console.error and the runtime have printed
  written,          \* the paths given to writeFileSync so far in this run
  repoFiles,        \* rebrand.js: the files of the working tree, by path
  unreadable,       \* rebrand.js: the paths readFileSync throws on
  readOnly,         \* rebrand.js: the paths writeFileSync throws on
  rbPc,             \* rebrand.js: position in rebrand()
  pending,          \* rebrand.js: the files forEach has still to visit
  stats,            \* rebrand.js: the statistics of lines 78-84
  rbRuns,           \* rebrand.js: how many times the script has been started
  asFound,          \* rebrand.js: the content of each file when the run began
  classList,        \* theme-manager.ts: document.documentElement.classList
  metaThemeColor,   \* theme-manager.ts: content of meta[name="theme-color"]
  localStorage,     \* theme-manager.ts: the item kept under THEME_STORAGE_KEY
  storageMode,      \* theme-manager.ts: which calls of localStorage throw
  systemDark,       \* theme-manager.ts: (prefers-color-scheme: dark) matches
  listeners,        \* theme-manager.ts: change listeners added by initTheme
  themechange       \* theme-manager.ts: detail of the last themechange event

\* The state of scripts/zempdf/rebrand.js
rebrandVars == <<repoFiles, unreadable, readOnly, rbPc, pending, stats, rbRuns, asFound>>

\* The state of scripts/generate-i18n-pages.mjs
generatorVars ==
  <<SITE_URL, BASE_PATH, languages, localeFiles, distFiles, distDirs, pc,
    runs, htmlFiles, fileIdx, originalContent, translationKey, langIdx,
    localesDir, distExists, ioMayFail, exitCode, stderr, written>>

\* The state of src/js/utils/theme-manager.ts
themeVars ==
  <<classList, metaThemeColor, localStorage, storageMode, systemDark, listeners, themechange>>

vars == <<generatorVars, rebrandVars, themeVars>>

-----------------------------------------------------------------------------
(* Bounds of the model *)

MaxRuns == 2
MaxLinks == 2
MaxAnchors == 1
MaxLines == 2
MaxRebrandRuns == 2

-----------------------------------------------------------------------------
(* String literals of the source *)

EMPTY == <<>>
SLASH == <<"/">>
DOT_HTML == <<".","h","t","m","l">>
HTTP == <<"h","t","t","p">>
SLASH2 == <<"/","/">>
HASH == <<"#">>
MAILTO == <<"m","a","i","l","t","o",":">>
TEL == <<"t","e","l",":">>
JAVASCRIPT == <<"j","a","v","a","s","c","r","i","p","t",":">>
ASSETS == <<"/","a","s","s","e","t","s","/">>
DEFAULT_SITE_URL == <<"h","t","t","p","s",":","/","/","b","e","n","t","o","p","d","f",".","c","o","m">>
EN == <<"e","n">>
X_DEFAULT == <<"x","-","d","e","f","a","u","l","t">>
INDEX == <<"i","n","d","e","x">>
HOME == <<"h","o","m","e">>
N404 == <<"4","0","4">>
NOT_FOUND == <<"n","o","t","F","o","u","n","d">>
BRAND_SUFFIX == " - BentoPDF"

-----------------------------------------------------------------------------
(* JavaScript string primitives *)

\* String.prototype.startsWith
StartsWith(s, p) ==
  /\ Len(p) <= Len(s)
  /\ SubSeq(s, 1, Len(p)) = p

\* String.prototype.endsWith
EndsWith(s, p) ==
  /\ Len(p) <= Len(s)
  /\ SubSeq(s, Len(s) - Len(p) + 1, Len(s)) = p

\* String.prototype.slice(n) with 0 <= n
Slice(s, n) == SubSeq(s, n + 1, Len(s))

\* String.prototype.indexOf, 1-based; 0 when p does not occur
IndexOf(s, p) ==
  LET hits == {i \in 1..(Len(s) + 1) :
                 i + Len(p) - 1 <= Len(s) /\ SubSeq(s, i, i + Len(p) - 1) = p}
  IN IF hits = {} THEN 0 ELSE CHOOSE i \in hits : \A j \in hits : i <= j

\* String.prototype.includes
Includes(s, p) == IndexOf(s, p) # 0

\* s.replace(p, '') with a string pattern: the first occurrence only
RemoveFirst(s, p) ==
  LET i == IndexOf(s, p)
  IN IF i = 0 THEN s ELSE SubSeq(s, 1, i - 1) \o SubSeq(s, i + Len(p), Len(s))

\* s.replace(/^\//, '')
StripLeadingSlash(s) == IF StartsWith(s, SLASH) THEN Slice(s, 1) ELSE s

\* s.replace(/\/$/, '')
StripTrailingSlash(s) == IF EndsWith(s, SLASH) THEN SubSeq(s, 1, Len(s) - 1) ELSE s

\* s.replace(/\/+$/, '')
RECURSIVE StripTrailingSlashes(_)
StripTrailingSlashes(s) ==
  IF EndsWith(s, SLASH) THEN StripTrailingSlashes(SubSeq(s, 1, Len(s) - 1)) ELSE s

\* Array.prototype.join
RECURSIVE Join(_, _)
Join(parts, sep) ==
  IF parts = <<>> THEN <<>>
  ELSE IF Len(parts) = 1 THEN parts[1]
  ELSE parts[1] \o sep \o Join(Tail(parts), sep)

\* Array.prototype.filter(Boolean) on an array of strings
NonEmpty(s) == s # <<>>
FilterBoolean(parts) == SelectSeq(parts, NonEmpty)

LowerCase == <<"a","b","c","d","e","f","g","h","i","j","k","l","m",
               "n","o","p","q","r","s","t","u","v","w","x","y","z">>
UpperCase == <<"A","B","C","D","E","F","G","H","I","J","K","L","M",
               "N","O","P","Q","R","S","T","U","V","W","X","Y","Z">>
IsLower(c) == \E i \in 1..Len(LowerCase) : LowerCase[i] = c
ToUpperCase(c) ==
  IF IsLower(c) THEN UpperCase[CHOOSE i \in 1..Len(LowerCase) : LowerCase[i] = c]
  ELSE c

-----------------------------------------------------------------------------
(* Key resolution, lines 18-25 and 53-58 *)

\* str.replace(/-([a-z])/g, (g) => g[1].toUpperCase())
RECURSIVE toCamelCase(_)
toCamelCase(str) ==
  IF str = <<>> THEN <<>>
  ELSE IF Len(str) >= 2 /\ str[1] = "-" /\ IsLower(str[2])
       THEN <<ToUpperCase(str[2])>> \o toCamelCase(Slice(str, 2))
       ELSE <<str[1]>> \o toCamelCase(Slice(str, 1))

\* The own properties of the object literal KEY_MAPPING.
KEY_MAPPING == (INDEX :> HOME) @@ (N404 :> NOT_FOUND)

\* KEY_MAPPING is a plain object, so KEY_MAPPING[name] also finds what the
\* object inherits from Object.prototype: for "constructor" the lookup
\* yields the function Object, which is truthy.  Used as a property key the
\* function is coerced to its source text, written here as one token.
CONSTRUCTOR == <<"c","o","n","s","t","r","u","c","t","o","r">>
ObjectFunction == <<"function Object() { [native code] }">>
InheritedProperties == (CONSTRUCTOR :> ObjectFunction)

\* KEY_MAPPING[name]; <<>> stands for undefined
KeyMappingLookup(name) ==
  IF name \in DOMAIN KEY_MAPPING THEN KEY_MAPPING[name]
  ELSE IF name \in DOMAIN InheritedProperties THEN InheritedProperties[name]
  ELSE <<>>

FilenameNoExt(file) == RemoveFirst(file, DOT_HTML)

ResolveKey(file) ==
  LET filenameNoExt == FilenameNoExt(file)
  IN IF KeyMappingLookup(filenameNoExt) # <<>>
     THEN KeyMappingLookup(filenameNoExt)
     ELSE toCamelCase(filenameNoExt)

\* A variant of PagePath that keeps the route of the index page
PagePath_KeepIndex(file) == FilenameNoExt(file)

PagePath(file) == IF FilenameNoExt(file) = INDEX THEN EMPTY ELSE FilenameNoExt(file)

-----------------------------------------------------------------------------
(* buildUrl, lines 28-34 *)

buildUrl(langPrefix, pagePath) ==
  LET p1 == <<SITE_URL>>
      p2 == IF BASE_PATH # EMPTY THEN Append(p1, StripLeadingSlash(BASE_PATH)) ELSE p1
      p3 == IF langPrefix # EMPTY THEN Append(p2, langPrefix) ELSE p2
      p4 == IF pagePath # EMPTY THEN Append(p3, StripLeadingSlash(pagePath)) ELSE p3
      joined == StripTrailingSlashes(Join(FilterBoolean(p4), SLASH))
  IN IF joined # EMPTY THEN joined ELSE SITE_URL

-----------------------------------------------------------------------------
(* The parsed document.  A document is                                     *)
(*   [lang, title, meta, links, anchors]                                   *)
(* lang    : the lang attribute of the root element                        *)
(* title   : document.title                                                *)
(* meta    : the content of the description and social meta tags present   *)
(* links   : the link elements, in document order, each a record with rel  *)
(*           and href and, when the attribute is present, hreflang         *)
(* anchors : the href of every a[href] element, in document order          *)

\* querySelectorAll('link[rel="alternate"][hreflang]')
IsAlternate(link) == link.rel = "alternate" /\ "hreflang" \in DOMAIN link

\* querySelector('link[rel="canonical"]')
IsCanonical(link) == link.rel = "canonical"

NotAlternate(link) == ~IsAlternate(link)

\* A variant of RemoveAlternates that removes nothing
RemoveAlternates_KeepAll(links) == links

\* A variant of RemoveAlternates that removes the first match only, as
\* querySelector in place of querySelectorAll would
RemoveAlternates_FirstOnly(links) ==
  LET found == {i \in 1..Len(links) : IsAlternate(links[i])}
  IN IF found = {} THEN links
     ELSE LET first == CHOOSE i \in found : \A j \in found : i <= j
          IN SubSeq(links, 1, first - 1) \o SubSeq(links, first + 1, Len(links))

\* lines 118-120 and 188-190: .forEach((el) => el.remove())
RemoveAlternates(links) == SelectSeq(links, NotAlternate)

\* A variant of AlternateLinks without the x-default link of lines 131-136
AlternateLinks_NoXDefault(pagePath) ==
  [i \in 1..Len(languages) |->
     [rel |-> "alternate", hreflang |-> languages[i],
      href |-> buildUrl(IF languages[i] = EN THEN EMPTY ELSE languages[i], pagePath)]]

\* lines 124-136 and 194-206: one link per language, then x-default, each
\* appended to the head
AlternateLinks(pagePath) ==
  [i \in 1..Len(languages) |->
     [rel |-> "alternate", hreflang |-> languages[i],
      href |-> buildUrl(IF languages[i] = EN THEN EMPTY ELSE languages[i], pagePath)]]
  \o <<[rel |-> "alternate", hreflang |-> X_DEFAULT, href |-> buildUrl(EMPTY, pagePath)]>>

RefreshAlternates(links, pagePath) == RemoveAlternates(links) \o AlternateLinks(pagePath)

\* A variant of SetCanonical that creates the link without looking for one
SetCanonical_AlwaysAppend(links, lang, pagePath) ==
  Append(links, [rel |-> "canonical", href |-> buildUrl(lang, pagePath)])

\* lines 138-144: the first canonical link gets the href; one is appended
\* when the document has none
SetCanonical(links, lang, pagePath) ==
  LET found == {i \in 1..Len(links) : IsCanonical(links[i])}
  IN IF found = {}
     THEN Append(links, [rel |-> "canonical", href |-> buildUrl(lang, pagePath)])
     ELSE LET first == CHOOSE i \in found : \A j \in found : i <= j
          IN [links EXCEPT ![first].href = buildUrl(lang, pagePath)]

\* lines 151-160
IsExternalOrSpecial(href) ==
  \/ StartsWith(href, HTTP)
  \/ StartsWith(href, SLASH2)
  \/ StartsWith(href, HASH)
  \/ StartsWith(href, MAILTO)
  \/ StartsWith(href, TEL)
  \/ StartsWith(href, JAVASCRIPT)

\* A variant of IsAsset without the includes test
IsAsset_PrefixOnly(href) == StartsWith(href, ASSETS)

\* line 162
IsAsset(href) == StartsWith(href, ASSETS) \/ Includes(href, ASSETS)

\* A variant of langPrefixRegexTest without the (\/|$) that ends the
\* expression of line 165
langPrefixRegexTest_NoBoundary(href) ==
  \E base \in {BASE_PATH, EMPTY} :
    \E i \in 1..Len(languages) :
      StartsWith(href, base \o SLASH \o languages[i])

\* lines 164-167: new RegExp(`^(${BASE_PATH})?/(${languages.join('|')})(/|$)`)
\* tested against href.  The base paths of the model hold no character
\* that is special in a regular expression.
langPrefixRegexTest(href) ==
  \E base \in {BASE_PATH, EMPTY} :
    \E i \in 1..Len(languages) :
      LET prefix == base \o SLASH \o languages[i]
      IN /\ StartsWith(href, prefix)
         /\ \/ Len(href) = Len(prefix)
            \/ href[Len(prefix) + 1] = "/"

\* A variant of RewriteHref that does not strip the base path
RewriteHref_NoBaseStrip(href, lang) ==
  IF href = EMPTY THEN href
  ELSE IF IsExternalOrSpecial(href) THEN href
  ELSE IF IsAsset(href) THEN href
  ELSE IF langPrefixRegexTest(href) THEN href
  ELSE IF StartsWith(href, SLASH) THEN BASE_PATH \o SLASH \o lang \o href
  ELSE lang \o SLASH \o href

\* lines 147-180, the callback applied to one anchor
RewriteHref(href, lang) ==
  IF href = EMPTY THEN href
  ELSE IF IsExternalOrSpecial(href) THEN href
  ELSE IF IsAsset(href) THEN href
  ELSE IF langPrefixRegexTest(href) THEN href
  ELSE IF StartsWith(href, SLASH)
       THEN LET pathWithoutBase ==
                  IF StartsWith(href, BASE_PATH) THEN Slice(href, Len(BASE_PATH)) ELSE href
            IN BASE_PATH \o SLASH \o lang \o pathWithoutBase
       ELSE lang \o SLASH \o href

RewriteLinks(anchors, lang) ==
  [i \in 1..Len(anchors) |-> RewriteHref(anchors[i], lang)]

\* existsSync(toolsPath) ? JSON.parse(readFileSync(toolsPath)) : {}, lines 74-76.
\* A parsed bundle is a function from keys to entries; an entry is a record
\* with some of the fields pageTitle, name, subtitle.
LoadTools(lang) ==
  IF localeFiles[lang].tools.exists THEN localeFiles[lang].tools.json ELSE <<>>

Field(entry, f) == IF f \in DOMAIN entry THEN entry[f] ELSE ""

TO_STRING == <<"t","o","S","t","r","i","n","g">>

\* The functions every object inherits from Object.prototype, by property
\* name, each with the value of its own name property
PrototypeFunctions == (TO_STRING :> "toString") @@ (CONSTRUCTOR :> "Object")

\* tools[translationKey], lines 86-92: own entries first, then the
\* prototype chain; <<>> stands for undefined
ToolsEntry(tools, key) ==
  IF key \in DOMAIN tools THEN tools[key]
  ELSE IF key \in DOMAIN PrototypeFunctions THEN [name |-> PrototypeFunctions[key]]
  ELSE <<>>

\* lines 83-93; "" stands for null and undefined, falsy like the empty string
ResolveTitle(tools, key) ==
  LET entry == ToolsEntry(tools, key)
  IN IF Field(entry, "pageTitle") # "" THEN entry.pageTitle
     ELSE IF Field(entry, "name") # "" THEN entry.name \o BRAND_SUFFIX
     ELSE ""

ResolveDescription(tools, key) == Field(ToolsEntry(tools, key), "subtitle")

TitleMetas == {"og:title", "twitter:title"}
DescriptionMetas == {"description", "og:description", "twitter:description"}

\* lines 95-116
InjectMetadata(doc, title, description) ==
  [doc EXCEPT
     !.title = IF title # "" THEN title ELSE @,
     !.meta = [m \in DOMAIN @ |->
                 IF title # "" /\ m \in TitleMetas THEN title
                 ELSE IF description # "" /\ m \in DescriptionMetas THEN description
                 ELSE @[m]]]

\* lines 78-182: what is serialized for one (file, lang)
LocalizedDoc(content, file, key, lang) ==
  LET tools == LoadTools(lang)
      withLang == [content EXCEPT !.lang = lang]
      withMeta == InjectMetadata(withLang, ResolveTitle(tools, key),
                                 ResolveDescription(tools, key))
      refreshed == RefreshAlternates(withMeta.links, PagePath(file))
  IN [withMeta EXCEPT
        !.links = SetCanonical(refreshed, lang, PagePath(file)),
        !.anchors = RewriteLinks(@, lang)]

\* A variant of DefaultDoc that also sets the canonical link
DefaultDoc_WithCanonical(content, file) ==
  [content EXCEPT
     !.links = SetCanonical(RefreshAlternates(@, PagePath(file)), EMPTY, PagePath(file))]

\* lines 185-208: what is serialized over the default-locale file
DefaultDoc(content, file) ==
  [content EXCEPT !.links = RefreshAlternates(@, PagePath(file))]

-----------------------------------------------------------------------------
(* The inputs of a run: environment, locale bundles, built pages *)

SITE_ALT == <<"h","t","t","p","s",":","/","/","s",".","i","o">>
BASE_APP_SLASH == <<"/","a","p","p","/">>
BASE_APP == <<"/","a","p","p">>

\* process.env: <<>> stands for an unset variable
EnvSet ==
  [SITE_URL : {EMPTY, SITE_ALT}, BASE_URL : {EMPTY, SLASH, BASE_APP_SLASH, BASE_APP}]

\* line 11: process.env.SITE_URL || 'https://bentopdf.com'
SiteUrlOf(env) == IF env.SITE_URL # EMPTY THEN env.SITE_URL ELSE DEFAULT_SITE_URL

\* line 12: (process.env.BASE_URL || '/').replace(/\/$/, '')
BasePathOf(env) == StripTrailingSlash(IF env.BASE_URL # EMPTY THEN env.BASE_URL ELSE SLASH)

FR == <<"f","r">>
DE == <<"d","e">>
README == <<"R","E","A","D","M","E",".","m","d">>
MERGE_PDF == <<"m","e","r","g","e","P","d","f">>

\* fs.readdirSync(LOCALES_DIR) with the kind of each entry
LocaleListings ==
  { <<[name |-> README, isDirectory |-> FALSE], [name |-> DE, isDirectory |-> TRUE],
      [name |-> EN, isDirectory |-> TRUE], [name |-> FR, isDirectory |-> TRUE]>>,
    <<[name |-> EN, isDirectory |-> TRUE], [name |-> FR, isDirectory |-> TRUE]>> }

FullListing ==
  <<[name |-> README, isDirectory |-> FALSE], [name |-> DE, isDirectory |-> TRUE],
    [name |-> EN, isDirectory |-> TRUE], [name |-> FR, isDirectory |-> TRUE]>>

IsDirectoryEntry(e) == e.isDirectory

\* lines 14-16
DiscoverLanguages(listing) ==
  LET dirs == SelectSeq(listing, IsDirectoryEntry)
  IN [i \in 1..Len(dirs) |-> dirs[i].name]

NoFile == [exists |-> FALSE]
JsonFile(json) == [exists |-> TRUE, valid |-> TRUE, json |-> json]
\* A file that exists and is not JSON
Malformed == [exists |-> TRUE, valid |-> FALSE]
\* JSON.parse does not throw: lines 71-76 parse only a file that exists
Parses(f) == IF f.exists THEN f.valid ELSE TRUE

NoDirectory == [exists |-> FALSE]
Directory(listing) == [exists |-> TRUE, listing |-> listing]

MSG_NO_DIST == "dist directory not found. Please run build first."
MSG_ENOENT == "ENOENT: no such file or directory, scandir LOCALES_DIR"
MSG_IO == "Error: file system call failed"
MSG_SYNTAX == "SyntaxError: JSON.parse"

ToolsFr ==
  (HOME :> [pageTitle |-> "Accueil", name |-> "Maison", subtitle |-> "Outils PDF"])
  @@ (MERGE_PDF :> [name |-> "Fusionner"])
  @@ (NOT_FOUND :> [subtitle |-> "Introuvable"])

\* The bundles under public/locales: fr has tools.json, the others have none.
LocaleFilesOf(langs) ==
  [l \in {langs[i] : i \in 1..Len(langs)} |->
     [common |-> NoFile,
      tools |-> IF l = FR THEN JsonFile(ToolsFr) ELSE NoFile]]

F_INDEX == <<"i","n","d","e","x",".","h","t","m","l">>
F_MERGE == <<"m","e","r","g","e","-","p","d","f",".","h","t","m","l">>
F_404 == <<"4","0","4",".","h","t","m","l">>
F_CONSTRUCTOR == <<"c","o","n","s","t","r","u","c","t","o","r",".","h","t","m","l">>
F_ROBOTS == <<"r","o","b","o","t","s",".","t","x","t">>
F_TO_STRING == <<"t","o","-","s","t","r","i","n","g",".","h","t","m","l">>

H_ABOUT == <<"/","a","b","o","u","t",".","h","t","m","l">>
H_FR_PRICING == <<"/","f","r","/","p","r","i","c","i","n","g",".","h","t","m","l">>
H_EXTERNAL == <<"h","t","t","p","s",":","/","/","e","x","t","e","r","n","a","l",".","c","o","m","/","x">>
H_SECTION == <<"#","s","e","c","t","i","o","n">>
H_MAILTO == <<"m","a","i","l","t","o",":","a","@","b",".","c","o","m">>
H_TEL == <<"t","e","l",":","+","1","2","3","4">>
H_JS == <<"j","a","v","a","s","c","r","i","p","t",":","v","o","i","d","(","0",")">>
H_PROTOREL == <<"/","/","c","d","n",".","i","o","/","x">>
H_LOGO == <<"/","a","s","s","e","t","s","/","l","o","g","o",".","p","n","g">>
H_REL_ASSET == <<"i","m","g","/","a","s","s","e","t","s","/","x",".","p","n","g">>
H_REL == <<"a","b","o","u","t",".","h","t","m","l">>
H_REL_FR == <<"f","r","/","a","b","o","u","t",".","h","t","m","l">>
H_FR == <<"/","f","r">>
H_FR_QUERY == <<"/","f","r","?","x","=","1">>
H_FR_HASH == <<"/","f","r","#","t","o","p">>
H_FRENCH == <<"/","f","r","e","n","c","h","/","x">>
H_APP_FRENCH == <<"/","a","p","p","/","f","r","e","n","c","h","/","x">>
H_APP_ABOUT == <<"/","a","p","p","/","a","b","o","u","t",".","h","t","m","l">>
H_APP_FR == <<"/","a","p","p","/","f","r","/","x">>
H_APPLE == <<"/","a","p","p","l","e","/","x">>
H_APP == <<"/","a","p","p">>
H_ROOT == <<"/">>
H_OLD == <<"/","o","l","d">>
H_FEED == <<"/","f","e","e","d",".","x","m","l">>
H_CSS == <<"/","a","s","s","e","t","s","/","s",".","c","s","s">>

\* href attributes of anchors found in built pages
SampleHrefs ==
  { EMPTY, H_ABOUT, H_FR_PRICING, H_EXTERNAL, H_SECTION, H_MAILTO, H_TEL, H_JS,
    H_PROTOREL, H_LOGO, H_REL_ASSET, H_REL, H_REL_FR, H_FR, H_FR_QUERY, H_FR_HASH,
    H_FRENCH, H_APP_FRENCH, H_APP_ABOUT, H_APP_FR, H_APPLE, H_APP, H_ROOT }

\* link elements found in the head of built pages
SampleLinks ==
  { [rel |-> "alternate", hreflang |-> FR, href |-> H_OLD],
    [rel |-> "alternate", hreflang |-> X_DEFAULT, href |-> H_OLD],
    [rel |-> "alternate", href |-> H_FEED],
    [rel |-> "canonical", href |-> H_OLD],
    [rel |-> "stylesheet", href |-> H_CSS] }

SeqsUpTo(S, n) == UNION {[1..k -> S] : k \in 0..n}

AllMeta ==
  [m \in TitleMetas \cup DescriptionMetas |->
     IF m \in TitleMetas THEN "Built title" ELSE "Built description"]

PlainDoc ==
  [lang |-> EN, title |-> "Built title", meta |-> AllMeta,
   links |-> <<[rel |-> "stylesheet", href |-> H_CSS], [rel |-> "canonical", href |-> H_OLD]>>,
   anchors |-> <<H_ABOUT, H_EXTERNAL>>]

\* A page without social meta tags
BareDoc ==
  [lang |-> EN, title |-> "Bare", meta |-> [m \in {"description"} |-> "Bare description"],
   links |-> <<>>, anchors |-> <<H_REL>>]

\* The pages a build may have produced: one dimension varied at a time
DocSet ==
  {[PlainDoc EXCEPT !.links = l] : l \in SeqsUpTo(SampleLinks, MaxLinks)}
  \cup {[PlainDoc EXCEPT !.anchors = a] : a \in SeqsUpTo(SampleHrefs, MaxAnchors)}
  \cup {BareDoc}

\* Text of a file that is not a page
OtherContent == [text |-> "User-agent: *"]

PageSets == { {F_INDEX, F_MERGE}, {F_404, F_CONSTRUCTOR} }

\* The order in which readdirSync lists the entries of DIST_DIR
DirOrder == <<F_404, F_CONSTRUCTOR, DE, EN, FR, F_INDEX, F_MERGE, F_ROBOTS, F_TO_STRING>>

\* fs.readdirSync(DIST_DIR): files and subdirectories alike
ReadDistDir(files, dirs) ==
  LET Present(name) == name \in (DOMAIN files) \cup (DOMAIN dirs)
  IN SelectSeq(DirOrder, Present)

IsHtmlName(name) == EndsWith(name, DOT_HTML)

\* lines 46-48
ListHtmlFiles(files, dirs) == SelectSeq(ReadDistDir(files, dirs), IsHtmlName)

-----------------------------------------------------------------------------
(* scripts/zempdf/rebrand.js: texts                                        *)
(*                                                                         *)
(* The content of a file is a sequence of pieces of text.  Each piece is   *)
(* written out below; the pieces are chosen so that no expression of the   *)
(* script matches across the border of two pieces except where the         *)
(* operators say so (white space, and the anchor of the stars badge).      *)

NL == "\n"
SP == " "
INDENT == "    "
SP8 == "        "
SP10 == "          "
\* what \s matches
IsSpace(t) == t \in {NL, SP, INDENT, SP8, SP10}

\* (c) stands for the copyright sign of lines 48-49
COPY_2025 == "(c) 2025"
COPY_2026 == "(c) 2026"
REPO == "https://github.com/alam00000/bentopdf/issues"
STARS_OPEN == "<a href=\"https://github.com/alam00000/bentopdf/\" class=\"gh\">"
SPAN_DESKTOP == "<span id=\"github-stars-desktop\">"
SPAN_MOBILE == "<span id=\"github-stars-mobile\">"
SPAN_CLOSE == "</span>"
A_CLOSE == "</a>"
STARS_HIDDEN == "<!-- GitHub stars badge hidden by ZemPDF rebrand -->"
LIC_DESKTOP == "<a href=\"/licensing.html\" class=\"nav-link\">Licensing</a>"
LIC_MOBILE == "<a href=\"/licensing.html\" class=\"mobile-nav-link\">Licensing</a>"
LIC_FOOTER == "<li><a href=\"/licensing.html\">Licensing</a></li>"
SCRIPT_LUCIDE == "<script type=\"module\" src=\"/src/js/utils/lucide-init.ts\"></script>"
SCRIPT_MAIN == "<script type=\"module\" src=\"/src/js/main.ts\"></script>"
SCRIPT_THEME == "<script type=\"module\" src=\"/src/js/utils/theme-manager.ts\"></script>"

\* lines 21-50: what the replacements of CONFIG, applied in the order of
\* lines 114-152 (copyright, URL, social, brand), make of each piece they
\* match in, and how many matches line 116 and its like count there
Replacements ==
  ("BentoPDF" :> [to |-> "ZemPDF", matches |-> 1])
  @@ ("bentopdf" :> [to |-> "zempdf", matches |-> 1])
  @@ ("Bento PDF" :> [to |-> "Zem PDF", matches |-> 1])
  @@ ("www.bentopdf.com" :> [to |-> "www.zempdf.com", matches |-> 1])
  @@ ("bentopdf.com" :> [to |-> "zempdf.com", matches |-> 1])
  @@ ("x.com/BentoPDF" :> [to |-> "x.com/ZemPDF", matches |-> 1])
  @@ ("@BentoPDF" :> [to |-> "@ZemPDF", matches |-> 1])
  @@ (COPY_2025 :> [to |-> COPY_2026, matches |-> 1])
  @@ ("(c) 2025 BentoPDF" :> [to |-> "(c) 2026 ZemPDF", matches |-> 2])

\* lines 53-59: the pieces one of preservePatterns matches in
Preserving == {REPO, STARS_OPEN, "@bentopdf/gs-wasm"}

\* content.split('\n'), line 108: where the line of piece i begins and ends
LineStart(content, i) ==
  LET breaks == {j \in 1..(i - 1) : content[j] = NL}
  IN IF breaks = {} THEN 1 ELSE (CHOOSE j \in breaks : \A k \in breaks : k <= j) + 1

LineEnd(content, i) ==
  LET breaks == {j \in i..Len(content) : content[j] = NL}
  IN IF breaks = {} THEN Len(content) ELSE (CHOOSE j \in breaks : \A k \in breaks : j <= k) - 1

\* lines 96-98, for the line piece i of content is in
shouldPreserveLine(content, i) ==
  \E j \in LineStart(content, i)..LineEnd(content, i) : content[j] \in Preserving

\* lines 103-163: every line that is not preserved has its matches replaced
Replaced(content, i) ==
  content[i] # NL /\ content[i] \in DOMAIN Replacements /\ ~shouldPreserveLine(content, i)

RECURSIVE Sum(_, _)
Sum(f, S) ==
  IF S = {} THEN 0
  ELSE LET x == CHOOSE y \in S : TRUE IN f[x] + Sum(f, S \ {x})

applyReplacements(content) ==
  [content |-> [i \in 1..Len(content) |->
                  IF Replaced(content, i) THEN Replacements[content[i]].to ELSE content[i]],
   replacementCount |->
     Sum([i \in 1..Len(content) |->
            IF Replaced(content, i) THEN Replacements[content[i]].matches ELSE 0],
         1..Len(content))]

\* How many pieces of s are t
Count(s, t) == Cardinality({i \in 1..Len(s) : s[i] = t})

\* The length of the run of white space s begins with
RECURSIVE LeadingSpace(_)
LeadingSpace(s) ==
  IF s # <<>> /\ IsSpace(s[1]) THEN 1 + LeadingSpace(Tail(s)) ELSE 0

\* content.replace(/\s*<link>\s*/g, repl), lines 179-198: each link goes
\* with the white space on both sides of it
RECURSIVE RemoveLink(_, _, _)
RemoveLink(s, link, repl) ==
  IF s = <<>> THEN <<>>
  ELSE LET w == LeadingSpace(s)
       IN IF w < Len(s) /\ s[w + 1] = link
          THEN LET rest == SubSeq(s, w + 2, Len(s))
               IN repl \o RemoveLink(SubSeq(rest, LeadingSpace(rest) + 1, Len(rest)), link, repl)
          ELSE <<s[1]>> \o RemoveLink(Tail(s), link, repl)

\* lines 204-217: from the anchor that opens on the repository up to the
\* first </a> after the first span of the badge, all is replaced by a
\* comment; the white space in front is put back ($1)
RECURSIVE HideStars(_, _)
HideStars(s, span) ==
  IF s = <<>> THEN <<>>
  ELSE LET spans == {j \in 2..Len(s) : s[j] = span /\ \E k \in (j + 1)..Len(s) : s[k] = A_CLOSE}
       IN IF s[1] = STARS_OPEN /\ spans # {}
          THEN LET j == CHOOSE x \in spans : \A y \in spans : x <= y
                   closes == {k \in (j + 1)..Len(s) : s[k] = A_CLOSE}
                   k == CHOOSE x \in closes : \A y \in closes : x <= y
               IN <<STARS_HIDDEN>> \o HideStars(SubSeq(s, k + 1, Len(s)), span)
          ELSE <<s[1]>> \o HideStars(Tail(s), span)

\* path.endsWith('.html')
IsHtmlPath(path) == EndsWith(path, DOT_HTML)

\* lines 168-223
removeElements(content, path) ==
  IF ~IsHtmlPath(path) THEN [content |-> content, removedCount |-> 0]
  ELSE LET noDesktop == RemoveLink(content, LIC_DESKTOP, <<NL, SP10>>)
           noMobile == RemoveLink(noDesktop, LIC_MOBILE, <<NL, SP8>>)
           noFooter == RemoveLink(noMobile, LIC_FOOTER, <<NL>>)
           hiddenDesktop == HideStars(noFooter, SPAN_DESKTOP)
           hiddenMobile == HideStars(hiddenDesktop, SPAN_MOBILE)
       IN [content |-> hiddenMobile,
           removedCount |-> Count(content, LIC_DESKTOP) + Count(noDesktop, LIC_MOBILE)
                            + Count(noMobile, LIC_FOOTER)
                            + (Count(hiddenMobile, STARS_HIDDEN) - Count(noFooter, STARS_HIDDEN))]

\* lines 245-260: the script is put in front of the first match of
\* /(\s*)(<script ...>)/, white space included, followed by a line break
\* and the same white space
InsertThemeBefore(s, scripts) ==
  LET found == {i \in 1..Len(s) : s[i] \in scripts}
      at == CHOOSE i \in found : \A j \in found : i <= j
      spaces == {q \in 1..at : \A r \in q..(at - 1) : IsSpace(s[r])}
      from == CHOOSE q \in spaces : \A r \in spaces : q <= r
      indent == SubSeq(s, from, at - 1)
  IN SubSeq(s, 1, from - 1) \o indent \o <<SCRIPT_THEME, NL>> \o SubSeq(s, from, Len(s))

\* lines 228-264
addThemeManager(content, path) ==
  IF ~IsHtmlPath(path) THEN [content |-> content, added |-> FALSE]
  ELSE IF Count(content, SCRIPT_THEME) > 0 THEN [content |-> content, added |-> FALSE]
  ELSE IF Count(content, SCRIPT_LUCIDE) > 0
  THEN [content |-> InsertThemeBefore(content, {SCRIPT_LUCIDE}), added |-> TRUE]
  ELSE IF Count(content, SCRIPT_MAIN) > 0
  THEN [content |-> InsertThemeBefore(content, {SCRIPT_MAIN}), added |-> TRUE]
  ELSE [content |-> content, added |-> FALSE]

\* lines 271-280: what processFile makes of the content of a file
Rebranded(content, path) ==
  addThemeManager(removeElements(applyReplacements(content).content, path).content,
                  path).content

-----------------------------------------------------------------------------
(* The run *)

\* What no step of the script changes: environment and input bundles
inputs == <<SITE_URL, BASE_PATH, localesDir, localeFiles, distExists, ioMayFail>>

\* theme-manager.ts is not loaded
ThemeOff ==
  /\ classList = {}
  /\ metaThemeColor = "absent"
  /\ localStorage = "absent"
  /\ storageMode = "off"
  /\ systemDark = FALSE
  /\ listeners = 0
  /\ themechange = "none"

\* rebrand.js is not run
RebrandOff ==
  /\ repoFiles = <<>>
  /\ unreadable = {}
  /\ readOnly = {}
  /\ rbPc = "off"
  /\ pending = <<>>
  /\ stats = <<>>
  /\ rbRuns = 0
  /\ asFound = <<>>

\* Inputs all present and well formed.  Either the content of the index
\* page varies, beside the full set of locales, or the locales and the
\* names of the pages do, with the two plainest contents.
InitBuilt ==
  /\ \/ /\ localesDir = Directory(FullListing)
        /\ localeFiles = LocaleFilesOf(DiscoverLanguages(FullListing))
        /\ \E d \in DocSet :
             distFiles = [f \in {F_INDEX, F_MERGE, F_ROBOTS} |->
                            IF f = F_ROBOTS THEN OtherContent
                            ELSE IF f = F_INDEX THEN d ELSE BareDoc]
     \/ /\ \E listing \in LocaleListings :
             /\ localesDir = Directory(listing)
             /\ localeFiles = LocaleFilesOf(DiscoverLanguages(listing))
        /\ \E pages \in PageSets :
             \E varied \in pages :
               \E d \in {PlainDoc, BareDoc} :
                 distFiles = [f \in pages \cup {F_ROBOTS} |->
                                IF f = F_ROBOTS THEN OtherContent
                                ELSE IF f = varied THEN d ELSE BareDoc]
  /\ distExists = TRUE
  /\ ioMayFail = FALSE

\* Inputs that are missing or malformed, or a file system that may fail
InitFaulty ==
  \E fault \in {"nodist", "nolocales", "nothing", "badcommon", "badtools", "io"} :
    /\ localesDir = IF fault \in {"nolocales", "nothing"} THEN NoDirectory
                    ELSE Directory(FullListing)
    /\ localeFiles =
         IF fault \in {"nolocales", "nothing"} THEN <<>>
         ELSE IF fault = "badcommon"
              THEN [LocaleFilesOf(DiscoverLanguages(FullListing)) EXCEPT ![FR].common = Malformed]
         ELSE IF fault = "badtools"
              THEN [LocaleFilesOf(DiscoverLanguages(FullListing)) EXCEPT ![DE].tools = Malformed]
         ELSE LocaleFilesOf(DiscoverLanguages(FullListing))
    /\ distExists = (fault \notin {"nodist", "nothing"})
    /\ distFiles = IF fault \in {"nodist", "nothing"} THEN <<>>
                   ELSE [f \in {F_INDEX, F_MERGE, F_ROBOTS} |->
                           IF f = F_ROBOTS THEN OtherContent
                           ELSE IF f = F_INDEX THEN PlainDoc ELSE BareDoc]
    /\ ioMayFail = (fault = "io")

\* Inputs all present and well formed, one page named after a member of
\* Object.prototype
InitPrototypeName ==
  /\ localesDir = Directory(FullListing)
  /\ localeFiles = LocaleFilesOf(DiscoverLanguages(FullListing))
  /\ distFiles = [f \in {F_TO_STRING, F_ROBOTS} |->
                    IF f = F_ROBOTS THEN OtherContent ELSE PlainDoc]
  /\ distExists = TRUE
  /\ ioMayFail = FALSE

Init ==
  /\ \E env \in EnvSet :
       /\ SITE_URL = SiteUrlOf(env)
       /\ BASE_PATH = BasePathOf(env)
  /\ InitBuilt \/ InitFaulty \/ InitPrototypeName
  /\ RebrandOff
  /\ ThemeOff
  /\ languages = <<>>
  /\ distDirs = <<>>
  /\ pc = "load"
  /\ runs = 1
  /\ exitCode = 0
  /\ stderr = {}
  /\ written = <<>>
  /\ htmlFiles = <<>>
  /\ fileIdx = 0
  /\ originalContent = PlainDoc
  /\ translationKey = EMPTY
  /\ langIdx = 0

\* lines 14-16, run when the module is loaded: readdirSync(LOCALES_DIR)
LoadModule ==
  /\ pc = "load"
  /\ localesDir.exists
  /\ languages' = DiscoverLanguages(localesDir.listing)
  /\ pc' = "start"
  /\ UNCHANGED <<themeVars, rebrandVars, inputs, distFiles, distDirs, runs, exitCode, stderr, written,
                 htmlFiles, fileIdx, originalContent, translationKey, langIdx>>

\* lines 14-16 when LOCALES_DIR is missing: readdirSync throws while the
\* module loads, nothing catches it, and node ends with status 1 after
\* printing the error
LoadModuleThrows ==
  /\ pc = "load"
  /\ ~localesDir.exists
  /\ pc' = "crashed"
  /\ exitCode' = 1
  /\ stderr' = stderr \cup {MSG_ENOENT}
  /\ UNCHANGED <<themeVars, rebrandVars, inputs, languages, distFiles, distDirs, runs, written,
                 htmlFiles, fileIdx, originalContent, translationKey, langIdx>>

\* Variant of ExitNoDist: process.exit(1) of line 43 left out of the report
ExitNoDist_StatusZero ==
  /\ pc = "start"
  /\ ~distExists
  /\ stderr' = stderr \cup {MSG_NO_DIST}
  /\ exitCode' = 0
  /\ pc' = "exited"
  /\ UNCHANGED <<themeVars, rebrandVars, inputs, languages, distFiles, distDirs, runs, written,
                 htmlFiles, fileIdx, originalContent, translationKey, langIdx>>

\* lines 41-44: DIST_DIR is missing
ExitNoDist ==
  /\ pc = "start"
  /\ ~distExists
  /\ stderr' = stderr \cup {MSG_NO_DIST}
  /\ exitCode' = 1
  /\ pc' = "exited"
  /\ UNCHANGED <<themeVars, rebrandVars, inputs, languages, distFiles, distDirs, runs, written,
                 htmlFiles, fileIdx, originalContent, translationKey, langIdx>>

\* lines 41-48: DIST_DIR exists; list its pages
Enumerate ==
  /\ pc = "start"
  /\ distExists
  /\ htmlFiles' = ListHtmlFiles(distFiles, distDirs)
  /\ fileIdx' = 1
  /\ pc' = "file"
  /\ UNCHANGED <<themeVars, rebrandVars, inputs, languages, distFiles, distDirs, runs, exitCode, stderr,
                 written, originalContent, translationKey, langIdx>>

\* lines 50-58: read the next page and resolve its translation key
ReadPage ==
  /\ pc = "file"
  /\ fileIdx <= Len(htmlFiles)
  /\ originalContent' = distFiles[htmlFiles[fileIdx]]
  /\ translationKey' = ResolveKey(htmlFiles[fileIdx])
  /\ langIdx' = 1
  /\ pc' = "lang"
  /\ UNCHANGED <<themeVars, rebrandVars, inputs, languages, distFiles, distDirs, runs, exitCode, stderr,
                 written, htmlFiles, fileIdx>>

\* line 214: an error thrown inside generateI18nPages rejects its promise;
\* .catch(console.error) prints it and the process ends, with status 0
Rejected(msg) ==
  /\ pc' = "failed"
  /\ stderr' = stderr \cup {msg}
  /\ UNCHANGED <<themeVars, rebrandVars, inputs, languages, distFiles, runs, exitCode, written,
                 htmlFiles, fileIdx, originalContent, translationKey, langIdx>>

\* line 52: readFileSync throws
ReadPageThrows ==
  /\ pc = "file"
  /\ fileIdx <= Len(htmlFiles)
  /\ ioMayFail
  /\ Rejected(MSG_IO)
  /\ UNCHANGED distDirs

\* lines 63-66: mkdirSync when the directory is absent
MakeDir(dirs, lang) ==
  IF lang \in DOMAIN dirs THEN dirs ELSE (lang :> <<>>) @@ dirs

\* lines 63-66 and 182: mkdirSync when the directory is absent, then writeFileSync
WriteInto(dirs, lang, file, doc) ==
  [MakeDir(dirs, lang) EXCEPT ![lang] = (file :> doc) @@ @]

\* Variant of SkipDefaultLocale: the continue of line 61 left out, so that
\* the default locale gets a copy like any other
SkipDefaultLocale_WritesCopy ==
  /\ pc = "lang"
  /\ langIdx <= Len(languages)
  /\ languages[langIdx] = EN
  /\ distDirs' = WriteInto(distDirs, EN, htmlFiles[fileIdx],
                           LocalizedDoc(originalContent, htmlFiles[fileIdx],
                                        translationKey, EN))
  /\ written' = Append(written, <<EN, htmlFiles[fileIdx]>>)
  /\ langIdx' = langIdx + 1
  /\ UNCHANGED <<themeVars, rebrandVars, inputs, languages, distFiles, pc, runs, exitCode, stderr,
                 htmlFiles, fileIdx, originalContent, translationKey>>

\* line 61: if (lang === 'en') continue
SkipDefaultLocale ==
  /\ pc = "lang"
  /\ langIdx <= Len(languages)
  /\ languages[langIdx] = EN
  /\ langIdx' = langIdx + 1
  /\ UNCHANGED <<themeVars, rebrandVars, inputs, languages, distFiles, distDirs, pc, runs, exitCode, stderr,
                 written, htmlFiles, fileIdx, originalContent, translationKey>>

\* lines 71-76: JSON.parse of the bundles that exist
BundlesParse(lang) ==
  /\ Parses(localeFiles[lang].common)
  /\ Parses(localeFiles[lang].tools)

\* A variant of FreshDocument: one document parsed per page and handed
\* from each language to the next
FreshDocument_Reused ==
  LET earlier == {k \in 1..(langIdx - 1) : languages[k] # EN}
  IN IF earlier = {} THEN originalContent
     ELSE LET last == CHOOSE k \in earlier : \A j \in earlier : j <= k
          IN distDirs[languages[last]][htmlFiles[fileIdx]]

\* line 78: the document a (page, language) unit starts from
FreshDocument == originalContent

\* lines 62-182: one iteration of the loop over languages
WriteLocalized ==
  /\ pc = "lang"
  /\ langIdx <= Len(languages)
  /\ languages[langIdx] # EN
  /\ BundlesParse(languages[langIdx])
  /\ distDirs' = WriteInto(distDirs, languages[langIdx], htmlFiles[fileIdx],
                           LocalizedDoc(FreshDocument, htmlFiles[fileIdx],
                                        translationKey, languages[langIdx]))
  /\ written' = Append(written, <<languages[langIdx], htmlFiles[fileIdx]>>)
  /\ langIdx' = langIdx + 1
  /\ UNCHANGED <<themeVars, rebrandVars, inputs, languages, distFiles, pc, runs, exitCode, stderr,
                 htmlFiles, fileIdx, originalContent, translationKey>>

\* lines 71-76: a bundle that exists is not JSON; the directory of line 65
\* has been made by then
ParseThrows ==
  /\ pc = "lang"
  /\ langIdx <= Len(languages)
  /\ languages[langIdx] # EN
  /\ ~BundlesParse(languages[langIdx])
  /\ distDirs' = MakeDir(distDirs, languages[langIdx])
  /\ Rejected(MSG_SYNTAX)

\* lines 63-182 when the file system fails: in mkdirSync (line 65), or after
\* it in readFileSync (lines 72, 75) or writeFileSync (line 182)
LocalizedThrows ==
  /\ pc = "lang"
  /\ langIdx <= Len(languages)
  /\ languages[langIdx] # EN
  /\ ioMayFail
  /\ \/ /\ languages[langIdx] \notin DOMAIN distDirs
        /\ UNCHANGED distDirs
     \/ distDirs' = MakeDir(distDirs, languages[langIdx])
  /\ Rejected(MSG_IO)

\* A variant of WriteDefault that does not wait for the loop over
\* languages to end, as if lines 185-208 stood in front of line 60
WriteDefault_Early ==
  /\ pc = "lang"
  /\ distFiles' = [distFiles EXCEPT ![htmlFiles[fileIdx]] =
                     DefaultDoc(originalContent, htmlFiles[fileIdx])]
  /\ written' = Append(written, <<EMPTY, htmlFiles[fileIdx]>>)
  /\ fileIdx' = fileIdx + 1
  /\ pc' = "file"
  /\ UNCHANGED <<themeVars, rebrandVars, inputs, languages, distDirs, runs, exitCode, stderr,
                 htmlFiles, originalContent, translationKey, langIdx>>

\* lines 185-208: overwrite the default-locale file, then the next page
WriteDefault ==
  /\ pc = "lang"
  /\ langIdx > Len(languages)
  /\ distFiles' = [distFiles EXCEPT ![htmlFiles[fileIdx]] =
                     DefaultDoc(originalContent, htmlFiles[fileIdx])]
  /\ written' = Append(written, <<EMPTY, htmlFiles[fileIdx]>>)
  /\ fileIdx' = fileIdx + 1
  /\ pc' = "file"
  /\ UNCHANGED <<themeVars, rebrandVars, inputs, languages, distDirs, runs, exitCode, stderr,
                 htmlFiles, originalContent, translationKey, langIdx>>

\* line 208: writeFileSync throws
DefaultThrows ==
  /\ pc = "lang"
  /\ langIdx > Len(languages)
  /\ ioMayFail
  /\ Rejected(MSG_IO)
  /\ UNCHANGED distDirs

\* line 211: the loop over pages is over
Finish ==
  /\ pc = "file"
  /\ fileIdx > Len(htmlFiles)
  /\ pc' = "done"
  /\ UNCHANGED <<themeVars, rebrandVars, inputs, languages, distFiles, distDirs, runs, exitCode, stderr,
                 written, htmlFiles, fileIdx, originalContent, translationKey, langIdx>>

\* The script is run again on the directories as the last run left them: a
\* new process, which has written nothing yet.  htmlFiles keeps the
\* previous listing until line 46 assigns the new one.
Rerun ==
  /\ pc = "done"
  /\ runs < MaxRuns
  /\ runs' = runs + 1
  /\ pc' = "load"
  /\ written' = <<>>
  /\ UNCHANGED <<themeVars, rebrandVars, inputs, languages, distFiles, distDirs, exitCode, stderr,
                 htmlFiles, fileIdx, originalContent, translationKey, langIdx>>

Next ==
  \/ LoadModule
  \/ LoadModuleThrows
  \/ ExitNoDist
  \/ Enumerate
  \/ ReadPage
  \/ ReadPageThrows
  \/ SkipDefaultLocale
  \/ WriteLocalized
  \/ ParseThrows
  \/ LocalizedThrows
  \/ WriteDefault
  \/ DefaultThrows
  \/ Finish
  \/ Rerun

Spec == Init /\ [][Next]_vars

-----------------------------------------------------------------------------
(* scripts/zempdf/rebrand.js: the run *)

P_PACKAGE == <<"p","a","c","k","a","g","e",".","j","s","o","n">>
P_ABOUT == <<"s","r","c","/","p","a","g","e","s","/","a","b","o","u","t",".","h","t","m","l">>
P_COMMON == <<"p","u","b","l","i","c","/","l","o","c","a","l","e","s","/","e","n","/","c","o","m","m","o","n",".","j","s","o","n">>
DOT_JSON == <<".","j","s","o","n">>

\* Lines found in the pages of the working tree
SampleLines ==
  { <<"<h1>", "BentoPDF", "</h1>">>,
    <<"BentoPDF", SP, "on", SP, REPO>>,
    <<STARS_OPEN>>,
    <<SPAN_DESKTOP, "0", SPAN_CLOSE, A_CLOSE, SP, "Bento PDF">>,
    <<"BentoPDF", SP, STARS_OPEN, SPAN_MOBILE, SPAN_CLOSE, A_CLOSE>>,
    <<INDENT, LIC_DESKTOP>>,
    <<INDENT, LIC_MOBILE, SP, LIC_FOOTER>>,
    <<INDENT, SCRIPT_LUCIDE>>,
    <<SCRIPT_MAIN>>,
    <<COPY_2025, SP, "www.bentopdf.com">>,
    <<SCRIPT_THEME>>,
    <<"ZemPDF">> }

\* lines.join('\n')
RECURSIVE JoinLines(_)
JoinLines(lines) ==
  IF lines = <<>> THEN <<>>
  ELSE IF Len(lines) = 1 THEN lines[1]
  ELSE lines[1] \o <<NL>> \o JoinLines(Tail(lines))

HtmlContents == {JoinLines(lines) : lines \in SeqsUpTo(SampleLines, MaxLines)}

\* A page as the upstream repository ships it
UpstreamPage ==
  JoinLines(<< <<"<title>", "BentoPDF", "</title>">>,
               <<INDENT, LIC_DESKTOP>>,
               <<INDENT, SCRIPT_LUCIDE>> >>)

UpstreamBundle == JoinLines(<< <<"{">>, <<"\"title\": \"", "BentoPDF", "\"">>, <<"}">> >>)

UpstreamPackage == JoinLines(<< <<"{">>, <<"\"name\": \"bento-pdf\"">>, <<"}">> >>)

\* CONFIG.htmlRootDir, htmlPagesDir, localesDir of lines 68-70, and the
\* files under each
DirOf == (F_INDEX :> "root") @@ (P_PACKAGE :> "root") @@ (P_ABOUT :> "pages")
         @@ (P_COMMON :> "locales")

\* The order in which readdirSync lists the entries
RepoOrder == <<F_INDEX, P_PACKAGE, P_ABOUT, P_COMMON>>

\* lines 309-333: the files of a directory that have one of the extensions
getFiles(directory, extensions) ==
  LET Listed(path) ==
        /\ path \in DOMAIN repoFiles
        /\ DirOf[path] = directory
        /\ \E ext \in extensions : EndsWith(path, ext)
  IN SelectSeq(RepoOrder, Listed)

\* generate-i18n-pages.mjs is not run
GeneratorOff ==
  /\ SITE_URL = DEFAULT_SITE_URL
  /\ BASE_PATH = EMPTY
  /\ languages = <<>>
  /\ localeFiles = <<>>
  /\ distFiles = <<>>
  /\ distDirs = <<>>
  /\ pc = "off"
  /\ runs = 0
  /\ htmlFiles = <<>>
  /\ fileIdx = 0
  /\ originalContent = PlainDoc
  /\ translationKey = EMPTY
  /\ langIdx = 0
  /\ localesDir = NoDirectory
  /\ distExists = FALSE
  /\ ioMayFail = FALSE
  /\ exitCode = 0
  /\ stderr = {}
  /\ written = <<>>

\* lines 78-84
NoStats ==
  [filesProcessed |-> 0, filesModified |-> 0, replacementsTotal |-> 0,
   elementsRemoved |-> 0, errors |-> <<>>]

InitRebrand ==
  /\ GeneratorOff
  /\ ThemeOff
  /\ \/ /\ \E c \in HtmlContents :
             repoFiles = (F_INDEX :> c) @@ (P_PACKAGE :> UpstreamPackage)
                         @@ (P_ABOUT :> UpstreamPage) @@ (P_COMMON :> UpstreamBundle)
        /\ unreadable = {}
        /\ readOnly = {}
     \/ /\ repoFiles = (F_INDEX :> UpstreamPage) @@ (P_PACKAGE :> UpstreamPackage)
                       @@ (P_ABOUT :> UpstreamPage) @@ (P_COMMON :> UpstreamBundle)
        /\ unreadable \in SUBSET {F_INDEX, P_ABOUT, P_COMMON}
        /\ readOnly \in SUBSET {F_INDEX, P_ABOUT, P_COMMON}
  /\ asFound = repoFiles
  /\ rbPc = "start"
  /\ pending = <<>>
  /\ stats = NoStats
  /\ rbRuns = 1

\* lines 345-347: the HTML files of the root directory
ListRoot ==
  /\ rbPc = "start"
  /\ pending' = getFiles("root", {DOT_HTML})
  /\ rbPc' = "root"
  /\ UNCHANGED <<themeVars, generatorVars, repoFiles, unreadable, readOnly, stats, rbRuns, asFound>>

\* lines 350-352: the HTML files of src/pages
ListPages ==
  /\ rbPc = "root"
  /\ pending = <<>>
  /\ pending' = getFiles("pages", {DOT_HTML})
  /\ rbPc' = "pages"
  /\ UNCHANGED <<themeVars, generatorVars, repoFiles, unreadable, readOnly, stats, rbRuns, asFound>>

\* lines 355-357: the JSON files under public/locales
ListLocales ==
  /\ rbPc = "pages"
  /\ pending = <<>>
  /\ pending' = getFiles("locales", {DOT_JSON})
  /\ rbPc' = "locales"
  /\ UNCHANGED <<themeVars, generatorVars, repoFiles, unreadable, readOnly, stats, rbRuns, asFound>>

\* A variant of processFile without the try and catch of lines 270 and 300:
\* the error leaves forEach and rebrand(), and no further file is visited
processFile_Rethrows ==
  /\ rbPc \in {"root", "pages", "locales"}
  /\ pending # <<>>
  /\ LET path == Head(pending)
         content == repoFiles[path]
         branded == applyReplacements(content)
         removed == removeElements(branded.content, path)
         themed == addThemeManager(removed.content, path)
     IN \/ /\ path \in unreadable
           /\ stats' = [stats EXCEPT !.errors = Append(@, path)]
           /\ pending' = <<>>
           /\ rbPc' = "done"
           /\ UNCHANGED repoFiles
        \/ /\ path \notin unreadable
           /\ themed.content # content
           /\ path \in readOnly
           /\ stats' = [stats EXCEPT !.filesProcessed = @ + 1, !.errors = Append(@, path)]
           /\ pending' = <<>>
           /\ rbPc' = "done"
           /\ UNCHANGED repoFiles
        \/ /\ path \notin unreadable
           /\ themed.content # content
           /\ path \notin readOnly
           /\ repoFiles' = [repoFiles EXCEPT ![path] = themed.content]
           /\ stats' = [stats EXCEPT !.filesProcessed = @ + 1,
                                     !.filesModified = @ + 1,
                                     !.replacementsTotal = @ + branded.replacementCount,
                                     !.elementsRemoved = @ + removed.removedCount]
           /\ pending' = Tail(pending)
           /\ UNCHANGED rbPc
        \/ /\ path \notin unreadable
           /\ themed.content = content
           /\ stats' = [stats EXCEPT !.filesProcessed = @ + 1]
           /\ pending' = Tail(pending)
           /\ UNCHANGED <<rbPc, repoFiles>>
  /\ UNCHANGED <<themeVars, generatorVars, unreadable, readOnly, rbRuns, asFound>>

\* lines 269-304, called by forEach for the next file of the list
processFile ==
  /\ rbPc \in {"root", "pages", "locales"}
  /\ pending # <<>>
  /\ LET path == Head(pending)
         content == repoFiles[path]
         branded == applyReplacements(content)
         removed == removeElements(branded.content, path)
         themed == addThemeManager(removed.content, path)
     IN \/ /\ path \in unreadable
           /\ stats' = [stats EXCEPT !.errors = Append(@, path)]
           /\ pending' = Tail(pending)
           /\ UNCHANGED rbPc
           /\ UNCHANGED repoFiles
        \/ /\ path \notin unreadable
           /\ themed.content # content
           /\ path \in readOnly
           /\ stats' = [stats EXCEPT !.filesProcessed = @ + 1, !.errors = Append(@, path)]
           /\ pending' = Tail(pending)
           /\ UNCHANGED rbPc
           /\ UNCHANGED repoFiles
        \/ /\ path \notin unreadable
           /\ themed.content # content
           /\ path \notin readOnly
           /\ repoFiles' = [repoFiles EXCEPT ![path] = themed.content]
           /\ stats' = [stats EXCEPT !.filesProcessed = @ + 1,
                                     !.filesModified = @ + 1,
                                     !.replacementsTotal = @ + branded.replacementCount,
                                     !.elementsRemoved = @ + removed.removedCount]
           /\ pending' = Tail(pending)
           /\ UNCHANGED rbPc
        \/ /\ path \notin unreadable
           /\ themed.content = content
           /\ stats' = [stats EXCEPT !.filesProcessed = @ + 1]
           /\ pending' = Tail(pending)
           /\ UNCHANGED <<rbPc, repoFiles>>
  /\ UNCHANGED <<themeVars, generatorVars, unreadable, readOnly, rbRuns, asFound>>

\* lines 359-389: the summary, after the last list
Summary ==
  /\ rbPc = "locales"
  /\ pending = <<>>
  /\ rbPc' = "done"
  /\ UNCHANGED <<themeVars, generatorVars, repoFiles, unreadable, readOnly, pending, stats, rbRuns, asFound>>

\* The script is started again on the working tree as the last run left
\* it: a new process, with statistics at zero
RerunRebrand ==
  /\ rbPc = "done"
  /\ rbRuns < MaxRebrandRuns
  /\ rbRuns' = rbRuns + 1
  /\ rbPc' = "start"
  /\ stats' = NoStats
  /\ asFound' = repoFiles
  /\ UNCHANGED <<themeVars, generatorVars, repoFiles, unreadable, readOnly, pending>>

NextRebrand ==
  \/ ListRoot
  \/ ListPages
  \/ ListLocales
  \/ processFile
  \/ Summary
  \/ RerunRebrand

SpecRebrand == InitRebrand /\ [][NextRebrand]_vars

-----------------------------------------------------------------------------
(* What a run has written for the page in hand.  While the loop over       *)
(* languages runs, the localized copies of the languages already passed    *)
(* are on disk; once the default-locale file is overwritten, all of them   *)
(* and the overwritten file are.  originalContent is what line 52 read.    *)

PageInHand == pc = "lang" \/ (pc \in {"file", "done"} /\ fileIdx > 1)

CurFile == IF pc = "lang" THEN htmlFiles[fileIdx] ELSE htmlFiles[fileIdx - 1]

DoneLangs ==
  IF pc = "lang"
  THEN {languages[k] : k \in 1..(langIdx - 1)} \ {EN}
  ELSE {languages[k] : k \in 1..Len(languages)} \ {EN}

DefaultWritten == pc \in {"file", "done"} /\ fileIdx > 1

Localized(L) == distDirs[L][CurFile]

HasHreflang(link) == link.rel = "alternate" /\ "hreflang" \in DOMAIN link
HreflangLinks(doc) == SelectSeq(doc.links, HasHreflang)
HasRelCanonical(link) == link.rel = "canonical"
CanonicalLinks(doc) == SelectSeq(doc.links, HasRelCanonical)

\* The route of a page as section 3 of the specification defines it
RouteOf(file) ==
  IF file = INDEX \o DOT_HTML THEN EMPTY ELSE SubSeq(file, 1, Len(file) - Len(DOT_HTML))

\* url(locale, route) written out: site URL, base path, locale prefix, route
UrlOf(L, route) ==
  SITE_URL
  \o (IF BASE_PATH = EMPTY THEN EMPTY ELSE SLASH \o Tail(BASE_PATH))
  \o (IF L = EN THEN EMPTY ELSE SLASH \o L)
  \o (IF route = EMPTY THEN EMPTY ELSE SLASH \o route)

-----------------------------------------------------------------------------
\* the hreflang links of doc are exactly those of the page file
HreflangSetComplete(doc, file) ==
  LET alts == HreflangLinks(doc)
  IN /\ Len(alts) = Len(languages) + 1
     /\ \A i, j \in 1..Len(alts) : alts[i].hreflang = alts[j].hreflang => i = j
     /\ {alts[i].hreflang : i \in 1..Len(alts)}
          = {languages[k] : k \in 1..Len(languages)} \cup {X_DEFAULT}
     /\ \A i \in 1..Len(alts) :
          alts[i].href = UrlOf(IF alts[i].hreflang = X_DEFAULT THEN EN ELSE alts[i].hreflang,
                               RouteOf(file))

\* C1: every document a run writes, localized or default, holds exactly
\* |languages| + 1 alternate hreflang links: one per language and one
\* x-default, no hreflang twice, each with the URL built for this page, so
\* none is a link of the source.
C1_HreflangSet ==
  PageInHand =>
    /\ \A L \in DoneLangs : HreflangSetComplete(Localized(L), CurFile)
    /\ DefaultWritten => HreflangSetComplete(distFiles[CurFile], CurFile)

\* C1 witness: a page whose source already carried hreflang links has its
\* localized copies and its default-locale file written.
C1_Witness ==
  /\ DefaultWritten
  /\ DoneLangs # {}
  /\ Len(HreflangLinks(originalContent)) = MaxLinks

-----------------------------------------------------------------------------
\* C2 as stated: every document written has exactly one canonical link,
\* the localized copies and the overwritten default-locale file alike,
\* whatever the number of canonical links in the source.
C2_ExactlyOneCanonical ==
  PageInHand =>
    /\ \A L \in DoneLangs : Len(CanonicalLinks(Localized(L))) = 1
    /\ DefaultWritten => Len(CanonicalLinks(distFiles[CurFile])) = 1

\* C2 amended: a localized copy has one canonical link when the source has
\* none and otherwise as many as the source, so exactly one when the source
\* has at most one; the overwritten default-locale file has as many
\* canonical links as the source, none being created or removed.
C2_CanonicalCount ==
  PageInHand =>
    LET n == Len(CanonicalLinks(originalContent))
    IN /\ \A L \in DoneLangs :
            Len(CanonicalLinks(Localized(L))) = IF n = 0 THEN 1 ELSE n
       /\ DefaultWritten => Len(CanonicalLinks(distFiles[CurFile])) = n

\* C2 witness: a page without canonical link and a page with several have
\* been written, localized and default.
C2_Witness ==
  /\ DefaultWritten
  /\ DoneLangs # {}
  /\ Len(CanonicalLinks(originalContent)) = MaxLinks
  /\ \E L \in DoneLangs : \E f \in DOMAIN distDirs[L] :
       /\ f # CurFile
       /\ Len(CanonicalLinks(distFiles[f])) = 0
       /\ Len(CanonicalLinks(distDirs[L][f])) = 1

-----------------------------------------------------------------------------
(* The classification of section 4.6 of the specification, written from    *)
(* its words: whole path segments, not the regular expression of the code  *)

SegmentEnd == {"/", "?", "#"}

\* href begins with http, //, #, mailto:, tel: or javascript:
BeginsSpecial(href) ==
  \E p \in {HTTP, SLASH2, HASH, MAILTO, TEL, JAVASCRIPT} : StartsWith(href, p)

\* href contains /assets/
ContainsAssets(href) ==
  \E i \in 1..Len(href) :
    i + Len(ASSETS) - 1 <= Len(href) /\ SubSeq(href, i, i + Len(ASSETS) - 1) = ASSETS

\* p is a prefix of s that ends where a path segment of s ends
SegmentPrefix(s, p) ==
  /\ StartsWith(s, p)
  /\ Len(s) = Len(p) \/ s[Len(p) + 1] \in SegmentEnd

\* href with the base path removed when the base path leads it
WithoutBase(href) ==
  IF BASE_PATH # EMPTY /\ SegmentPrefix(href, BASE_PATH)
  THEN Slice(href, Len(BASE_PATH))
  ELSE href

RECURSIVE UpToSegmentEnd(_)
UpToSegmentEnd(s) ==
  IF s = <<>> \/ s[1] \in SegmentEnd THEN <<>>
  ELSE <<s[1]>> \o UpToSegmentEnd(Tail(s))

\* the first path segment of href, after an optional base path
FirstSegment(href) ==
  LET rest == WithoutBase(href)
  IN UpToSegmentEnd(IF StartsWith(rest, SLASH) THEN Tail(rest) ELSE rest)

KnownLocales == {languages[k] : k \in 1..Len(languages)}

LocaleScoped(href) == FirstSegment(href) \in KnownLocales

InternalRewritable(href) ==
  /\ ~BeginsSpecial(href)
  /\ ~ContainsAssets(href)
  /\ ~LocaleScoped(href)

\* Anchor i of the copy written for L, and of the source it was made from
Out(L, i) == Localized(L).anchors[i]
Src(i) == originalContent.anchors[i]
Anchors == 1..Len(originalContent.anchors)

-----------------------------------------------------------------------------
\* out is src with L put in front as one whole path segment
PrefixedOnce(out, src, L) ==
  IF StartsWith(src, SLASH)
  THEN /\ SegmentPrefix(out, BASE_PATH \o SLASH \o L)
       /\ Slice(out, Len(BASE_PATH) + 1 + Len(L)) = WithoutBase(src)
       /\ FirstSegment(WithoutBase(src)) # L
  ELSE /\ out = L \o SLASH \o src
       /\ FirstSegment(src) # L

\* C3 as stated: in the copy written for L every internal-rewritable href
\* (taken non-empty) carries L exactly once as a whole path segment in
\* front: after the base path for an absolute href, at the start for a
\* relative one, followed by what the source href held after its base path.
C3_PrefixedOnce ==
  PageInHand =>
    \A L \in DoneLangs : \A i \in Anchors :
      (Src(i) # EMPTY /\ InternalRewritable(Src(i))) => PrefixedOnce(Out(L, i), Src(i), L)

-----------------------------------------------------------------------------
\* C4 as stated: an href whose first path segment, after an optional base
\* path, is a known locale code is unchanged in every localized copy, be it
\* absolute or relative, and be the segment followed by a query or fragment.
C4_LocaleScopedUnchanged ==
  PageInHand =>
    \A L \in DoneLangs : \A i \in Anchors :
      LocaleScoped(Src(i)) => Out(L, i) = Src(i)

-----------------------------------------------------------------------------
\* C5: an href that begins with http, //, #, mailto:, tel: or javascript:,
\* or that contains /assets/, is the same in every localized copy as in the
\* source.
C5_SpecialUnchanged ==
  PageInHand =>
    \A L \in DoneLangs : \A i \in Anchors :
      (BeginsSpecial(Src(i)) \/ ContainsAssets(Src(i))) => Out(L, i) = Src(i)

\* C5 witness: a copy is written of a page with an anchor to an asset given
\* by a relative href, and there is a base path.
C5_Witness ==
  /\ PageInHand
  /\ DoneLangs # {}
  /\ BASE_PATH # EMPTY
  /\ \E i \in Anchors : ContainsAssets(Src(i)) /\ ~StartsWith(Src(i), SLASH)

-----------------------------------------------------------------------------
\* What section 4.6 prescribes for an internal-rewritable href
Remainder(href) ==
  IF Len(BASE_PATH) <= Len(href) /\ SubSeq(href, 1, Len(BASE_PATH)) = BASE_PATH
  THEN SubSeq(href, Len(BASE_PATH) + 1, Len(href))
  ELSE href

Prescribed(href, L) ==
  IF href # EMPTY /\ href[1] = "/"
  THEN BASE_PATH \o SLASH \o L \o Remainder(href)
  ELSE L \o SLASH \o href

\* C6 as stated: every internal-rewritable href becomes
\* basePath + "/" + L + remainder when it starts with "/", and
\* L + "/" + href otherwise.
C6_RewrittenForm ==
  PageInHand =>
    \A L \in DoneLangs : \A i \in Anchors :
      InternalRewritable(Src(i)) => Out(L, i) = Prescribed(Src(i), L)

\* C6 amended: the same for every non-empty internal-rewritable href; an
\* anchor whose href attribute is empty keeps it.
C6_RewrittenFormNonEmpty ==
  PageInHand =>
    \A L \in DoneLangs : \A i \in Anchors :
      /\ (Src(i) # EMPTY /\ InternalRewritable(Src(i))) => Out(L, i) = Prescribed(Src(i), L)
      /\ Src(i) = EMPTY => Out(L, i) = EMPTY

\* C6 witness: /about.html has become /fr/about.html under an empty base
\* path, and elsewhere a relative href has been prefixed.
C6_Witness ==
  /\ PageInHand
  /\ FR \in DoneLangs
  /\ BASE_PATH = EMPTY
  /\ \E i \in Anchors :
       /\ Src(i) = H_ABOUT
       /\ Out(FR, i) = <<"/","f","r","/","a","b","o","u","t",".","h","t","m","l">>
  /\ \E f \in DOMAIN distDirs[FR] :
       \E i \in 1..Len(distDirs[FR][f].anchors) :
         distDirs[FR][f].anchors[i] = FR \o SLASH \o H_REL

-----------------------------------------------------------------------------
\* C7: from the second run on, with the directory as the run before left
\* it, no step changes a localized copy or adds one, and the pages listed
\* are those listed by the run before.
C7_SecondRunIdentical ==
  [][runs >= 2 => (distDirs' = distDirs /\ htmlFiles' = htmlFiles)]_vars

\* C7 witness: a second run has rewritten every copy of a page whose
\* source carried hreflang links and no canonical link before the first.
C7_Witness ==
  /\ runs = 2
  /\ DefaultWritten
  /\ DoneLangs # {}
  /\ Len(CanonicalLinks(originalContent)) = 0
  /\ Len(HreflangLinks(originalContent)) = Len(languages) + 1
  /\ \E i \in 1..Len(originalContent.links) :
       originalContent.links[i].rel = "stylesheet"

-----------------------------------------------------------------------------
\* C8: in the copy written for a non-default locale L the canonical href is
\* url(L, route): site URL, base path, L and route joined by single
\* separators, without trailing separator; for index.html it ends with L.
C8_CanonicalUrl ==
  PageInHand =>
    \A L \in DoneLangs :
      LET href == CanonicalLinks(Localized(L))[1].href
      IN /\ href = UrlOf(L, RouteOf(CurFile))
         /\ href[Len(href)] # "/"
         /\ CurFile = F_INDEX =>
              href = SITE_URL \o (IF BASE_PATH = EMPTY THEN EMPTY ELSE BASE_PATH)
                              \o SLASH \o L

\* C8 witness: the copy of index.html for fr is written under the default
\* site URL and no base path.
C8_Witness ==
  /\ PageInHand
  /\ CurFile = F_INDEX
  /\ FR \in DoneLangs
  /\ SITE_URL = DEFAULT_SITE_URL
  /\ BASE_PATH = EMPTY
  /\ CanonicalLinks(Localized(FR))[1].href = DEFAULT_SITE_URL \o SLASH \o FR

-----------------------------------------------------------------------------
\* kebab-case to camelCase as section 4.3 words it
RECURSIVE Camel(_)
Camel(name) ==
  IF Len(name) < 2 THEN name
  ELSE IF name[1] = "-" /\ IsLower(name[2])
       THEN <<ToUpperCase(name[2])>> \o Camel(SubSeq(name, 3, Len(name)))
       ELSE <<name[1]>> \o Camel(Tail(name))

KeyOf(file) ==
  LET name == SubSeq(file, 1, Len(file) - Len(DOT_HTML))
  IN IF name = INDEX THEN HOME
     ELSE IF name = N404 THEN NOT_FOUND
     ELSE Camel(name)

\* C9 as stated: the translation key of a page is the override when its
\* name without extension is index or 404, and otherwise that name with
\* every -x replaced by X; a name outside the table is never overridden.
C9_KeyOfFilename ==
  pc = "lang" => translationKey = KeyOf(htmlFiles[fileIdx])

-----------------------------------------------------------------------------
NoHreflang(link) == ~HasHreflang(link)

\* C10: overwriting the default-locale file changes its hreflang links
\* only: root language, title, meta tags, every anchor href, the canonical
\* links and every other link that is not an hreflang link are as read.
C10_DefaultOnlyHreflang ==
  DefaultWritten =>
    LET overwritten == distFiles[CurFile]
    IN /\ overwritten.lang = originalContent.lang
       /\ overwritten.title = originalContent.title
       /\ overwritten.meta = originalContent.meta
       /\ overwritten.anchors = originalContent.anchors
       /\ CanonicalLinks(overwritten) = CanonicalLinks(originalContent)
       /\ SelectSeq(overwritten.links, NoHreflang) = SelectSeq(originalContent.links, NoHreflang)

\* C10 witness: the default-locale file is overwritten for a page whose fr
\* copy differs from the source in language, title, canonical href and an
\* anchor.
C10_Witness ==
  /\ DefaultWritten
  /\ FR \in DoneLangs
  /\ Localized(FR).lang # originalContent.lang
  /\ Localized(FR).title # originalContent.title
  /\ Localized(FR).anchors # originalContent.anchors
  /\ CanonicalLinks(originalContent) # <<>>
  /\ CanonicalLinks(Localized(FR)) # CanonicalLinks(originalContent)

-----------------------------------------------------------------------------
\* The process is over: module load threw, process.exit was called, the
\* promise was rejected, or the run went through
Ended == pc \in {"crashed", "exited", "failed", "done"}

\* A required input directory is missing
InputMissing == ~distExists \/ ~localesDir.exists

\* Nothing has been written and no directory has been made
NothingWritten ==
  /\ written = <<>>
  /\ distDirs = <<>>
  /\ htmlFiles = <<>>

\* C11 as stated: when the build-output directory or the bundle root is
\* missing nothing is ever written or created, and the process ends with a
\* non-zero status and the diagnostic for the missing build-output
\* directory whenever that directory is missing.
C11_AbortsWithDistDiagnostic ==
  InputMissing =>
    /\ NothingWritten
    /\ pc \in {"load", "start", "crashed", "exited"}
    /\ Ended => exitCode # 0
    /\ (Ended /\ ~distExists) => MSG_NO_DIST \in stderr

\* C11 amended: when the build-output directory or the bundle root is
\* missing nothing is ever written or created and the process ends with a
\* non-zero status; the diagnostic is the one for the missing build-output
\* directory when the bundle root exists, and the uncaught error of reading
\* the bundle root when it does not, whether or not the build-output
\* directory exists.
C11_AbortsBeforeProcessing ==
  InputMissing =>
    /\ NothingWritten
    /\ pc \in {"load", "start", "crashed", "exited"}
    /\ Ended => exitCode # 0
    /\ Ended => stderr = IF localesDir.exists THEN {MSG_NO_DIST} ELSE {MSG_ENOENT}
    /\ pc = "exited" <=> (Ended /\ localesDir.exists)

\* C11 witness: the run has ended on the missing build-output directory,
\* with status 1 and its diagnostic.
C11_Witness ==
  /\ ~distExists
  /\ pc = "exited"
  /\ exitCode = 1
  /\ MSG_NO_DIST \in stderr
  /\ NothingWritten

-----------------------------------------------------------------------------
\* Every path given to writeFileSync in this run is on disk
WrittenOnDisk ==
  \A i \in 1..Len(written) :
    IF written[i][1] = EMPTY
    THEN written[i][2] \in DOMAIN distFiles
    ELSE /\ written[i][1] \in DOMAIN distDirs
         /\ written[i][2] \in DOMAIN distDirs[written[i][1]]

\* C12 as stated: when reading, parsing or writing has failed in some unit
\* the run has terminated as a failure, that is with a diagnostic and a
\* non-zero status, no step of the run is left to write anything later,
\* and every file written before the failure is on disk.
C12_FatalFailure ==
  pc = "failed" =>
    /\ exitCode # 0
    /\ stderr \cap {MSG_IO, MSG_SYNTAX} # {}
    /\ ~ENABLED (WriteLocalized \/ WriteDefault \/ ReadPage \/ Rerun)
    /\ WrittenOnDisk

-----------------------------------------------------------------------------
\* How many times path was given to writeFileSync in this run
TimesWritten(path) == Cardinality({i \in 1..Len(written) : written[i] = path})

\* The pages of the build output
Pages == {f \in DOMAIN distFiles : IsHtmlName(f)}

\* C13: a run that went through without error has written exactly one file
\* <locale>/<filename> for every page and every non-default locale, has
\* overwritten every default-locale page file once, has written nothing
\* else and nothing under a directory of the default locale, and each
\* localized document on disk has its locale as root language.
C13_OneFilePerUnit ==
  pc = "done" =>
    /\ {htmlFiles[k] : k \in 1..Len(htmlFiles)} = Pages
    /\ \A f \in Pages :
         /\ TimesWritten(<<EMPTY, f>>) = 1
         /\ \A L \in KnownLocales \ {EN} :
              /\ TimesWritten(<<L, f>>) = 1
              /\ distDirs[L][f].lang = L
    /\ Len(written) = Cardinality(Pages) * (Cardinality(KnownLocales \ {EN}) + 1)
    /\ \A i \in 1..Len(written) : written[i][1] # EN
    /\ EN \notin DOMAIN distDirs

\* C13 witness: a run over two pages and the locales de, en, fr has gone
\* through, six files written.
C13_Witness ==
  /\ pc = "done"
  /\ Pages = {F_INDEX, F_MERGE}
  /\ KnownLocales = {DE, EN, FR}
  /\ Len(written) = 6
  /\ distDirs[FR][F_MERGE].lang = FR

-----------------------------------------------------------------------------
\* The documents on disk that this run has written for the page in hand
OutputDocs ==
  {Localized(L) : L \in DoneLangs}
  \cup (IF DefaultWritten THEN {distFiles[CurFile]} ELSE {})

\* The alternate links of doc that carry hreflang h
LinksFor(doc, h) ==
  LET Carries(link) == HasHreflang(link) /\ link.hreflang = h
  IN SelectSeq(doc.links, Carries)

\* C16: every document written, localized or default, has exactly one
\* alternate link with hreflang x-default; its href is url(en, route), the
\* href of the one alternate link the document has for en.
C16_OneXDefault ==
  PageInHand =>
    \A doc \in OutputDocs :
      /\ Len(LinksFor(doc, X_DEFAULT)) = 1
      /\ LinksFor(doc, X_DEFAULT)[1].href = UrlOf(EN, RouteOf(CurFile))
      /\ EN \in KnownLocales =>
           /\ Len(LinksFor(doc, EN)) = 1
           /\ LinksFor(doc, EN)[1].href = LinksFor(doc, X_DEFAULT)[1].href

\* C16 witness: copies and the default file are written of a page that
\* came with a stale x-default link, under a base path.
C16_Witness ==
  /\ DefaultWritten
  /\ DoneLangs = {DE, FR}
  /\ Len(LinksFor(originalContent, X_DEFAULT)) = 1
  /\ LinksFor(originalContent, X_DEFAULT)[1].href = H_OLD
  /\ BASE_PATH # EMPTY
  /\ LinksFor(distFiles[CurFile], X_DEFAULT)[1].href # H_OLD

-----------------------------------------------------------------------------
\* The entry of the page in hand in the tools bundle of L, if the bundle
\* exists and has the page's key; <<>> when either is absent
BundleEntry(L) ==
  IF localeFiles[L].tools.exists /\ KeyOf(CurFile) \in DOMAIN localeFiles[L].tools.json
  THEN localeFiles[L].tools.json[KeyOf(CurFile)]
  ELSE <<>>

\* C17 as stated: the title of the copy written for L is the entry's
\* pageTitle if present, else its name followed by " - BentoPDF" if
\* present, else the source title; without a bundle or without the page's
\* key in it, title and meta tags of the copy are those of the source.
C17_TitleResolution ==
  PageInHand =>
    \A L \in DoneLangs :
      /\ Localized(L).title =
           IF "pageTitle" \in DOMAIN BundleEntry(L) THEN BundleEntry(L).pageTitle
           ELSE IF "name" \in DOMAIN BundleEntry(L) THEN BundleEntry(L).name \o BRAND_SUFFIX
           ELSE originalContent.title
      /\ BundleEntry(L) = <<>> =>
           /\ Localized(L).title = originalContent.title
           /\ Localized(L).meta = originalContent.meta

-----------------------------------------------------------------------------
\* The first path segment of href, after an optional base path, begins
\* with a known locale code and goes on
BeginsWithLocale(href) ==
  \E l \in KnownLocales :
    /\ StartsWith(FirstSegment(href), l)
    /\ Len(FirstSegment(href)) > Len(l)

\* C18: an href whose first path segment only begins with a known locale
\* code, like /french/x beside the locale fr, is not taken as
\* locale-scoped by the test of line 167 and gets the prefix of the target
\* locale in every copy, with and without base path.
C18_WholeSegmentDetection ==
  PageInHand =>
    \A L \in DoneLangs : \A i \in Anchors :
      (InternalRewritable(Src(i)) /\ BeginsWithLocale(Src(i))) =>
        /\ ~langPrefixRegexTest(Src(i))
        /\ Out(L, i) = Prescribed(Src(i), L)
        /\ Out(L, i) # Src(i)

\* C18 witness: the copy for de is written of a page that links to
\* /app/french/x under the base path /app, fr being a locale.
C18_Witness ==
  /\ PageInHand
  /\ DE \in DoneLangs
  /\ FR \in KnownLocales
  /\ BASE_PATH = BASE_APP
  /\ \E i \in Anchors :
       /\ Src(i) = H_APP_FRENCH
       /\ Out(DE, i) = BASE_APP \o SLASH \o DE \o H_FRENCH

-----------------------------------------------------------------------------
\* C19: nothing leaks from one (page, locale) unit into another.  While the
\* locales of a page are gone through the file on disk is still the source
\* as read; the copy written for L is the pipeline applied to that source
\* for L, whatever was written for other locales before; its root
\* language is L, its first canonical link is that of L, and each anchor
\* is the source anchor, as it was or with the prefix of L only; title and
\* meta tags are covered by the equality with the pipeline.
C19_NoLeakBetweenUnits ==
  PageInHand =>
    /\ pc = "lang" => distFiles[CurFile] = originalContent
    /\ \A L \in DoneLangs :
         /\ Localized(L) = LocalizedDoc(originalContent, CurFile, translationKey, L)
         /\ Localized(L).lang = L
         /\ CanonicalLinks(Localized(L))[1].href = UrlOf(L, RouteOf(CurFile))
         /\ Len(CanonicalLinks(Localized(L))) =
              IF CanonicalLinks(originalContent) = <<>> THEN 1
              ELSE Len(CanonicalLinks(originalContent))
         /\ Len(Localized(L).anchors) = Len(originalContent.anchors)
         /\ \A i \in Anchors : Out(L, i) \in {Src(i), Prescribed(Src(i), L)}

\* C19 witness: de and then fr have been written for a page whose copies
\* differ from each other in title, anchors and canonical link.
C19_Witness ==
  /\ PageInHand
  /\ DoneLangs = {DE, FR}
  /\ Localized(FR).title # originalContent.title
  /\ Localized(DE).title = originalContent.title
  /\ originalContent.anchors # <<>>
  /\ \A i \in Anchors : Out(DE, i) # Src(i) /\ Out(FR, i) # Out(DE, i)
  /\ CanonicalLinks(Localized(DE)) # CanonicalLinks(Localized(FR))

-----------------------------------------------------------------------------
\* C20 as stated: the link rewriter applied for L to the anchors of a copy
\* already written for L changes none of them, absolute or relative.
C20_RewriterIdempotent ==
  PageInHand =>
    \A L \in DoneLangs : \A i \in Anchors :
      RewriteHref(Out(L, i), L) = Out(L, i)

-----------------------------------------------------------------------------
\* C14 as stated: a second run of the rebrand script on the files that a
\* first run produced changes no file.
C14_SecondRunChangesNothing ==
  rbRuns >= 2 => repoFiles = asFound

-----------------------------------------------------------------------------
\* The files the three lists of rebrand() hold
ListedFiles ==
  {path \in DOMAIN repoFiles :
     \/ DirOf[path] \in {"root", "pages"} /\ EndsWith(path, DOT_HTML)
     \/ DirOf[path] = "locales" /\ EndsWith(path, DOT_JSON)}

\* The files whose reading fails, and those whose writing fails: a file is
\* written only if the script changes its content
ReadFails == ListedFiles \cap unreadable
WriteFails ==
  {path \in (ListedFiles \ unreadable) \cap readOnly :
     Rebranded(asFound[path], path) # asFound[path]}

\* C15: at the end of a run of the rebrand script every file whose reading
\* or writing failed is recorded once among the errors, is as it was found
\* and is not counted as modified, while every other listed file has been
\* processed: it holds its rebranded content and is counted.
C15_IsolatesFailures ==
  rbPc = "done" =>
    /\ {stats.errors[i] : i \in 1..Len(stats.errors)} = ReadFails \cup WriteFails
    /\ Len(stats.errors) = Cardinality(ReadFails \cup WriteFails)
    /\ \A path \in ReadFails \cup WriteFails : repoFiles[path] = asFound[path]
    /\ \A path \in ListedFiles \ (ReadFails \cup WriteFails) :
         repoFiles[path] = Rebranded(asFound[path], path)
    /\ stats.filesProcessed = Cardinality(ListedFiles \ ReadFails)
    /\ stats.filesModified =
         Cardinality({path \in ListedFiles \ (ReadFails \cup WriteFails) :
                        repoFiles[path] # asFound[path]})

\* C15 witness: a run has ended in which the first file could not be read
\* and the second could not be written, and the third was modified.
C15_Witness ==
  /\ rbPc = "done"
  /\ rbRuns = 1
  /\ stats.errors = <<F_INDEX, P_ABOUT>>
  /\ repoFiles[P_COMMON] # asFound[P_COMMON]
  /\ repoFiles[P_ABOUT] = asFound[P_ABOUT]
  /\ stats.filesModified = 1
  /\ stats.filesProcessed = 2

-----------------------------------------------------------------------------
\* C21: in every state of a run, ended by an error or not, a page whose
\* default-locale file this run has overwritten has the copy of every
\* non-default locale on disk, each written by this run before the
\* overwrite.
C21_DefaultAfterVariants ==
  \A i \in 1..Len(written) :
    written[i][1] = EMPTY =>
      \A L \in KnownLocales \ {EN} :
        /\ \E j \in 1..(i - 1) : written[j] = <<L, written[i][2]>>
        /\ L \in DOMAIN distDirs
        /\ written[i][2] \in DOMAIN distDirs[L]

\* C21 witness: the run was ended by an error in the second page, after
\* the default-locale file of the first page was overwritten, de and fr
\* being locales.
C21_Witness ==
  /\ pc = "failed"
  /\ {DE, FR} \subseteq KnownLocales
  /\ Len(written) >= 3
  /\ written[3][1] = EMPTY
  /\ fileIdx = 2


\* ---------------------------------------------------------------------------
\* src/js/utils/theme-manager.ts: the light/dark theme of a page
\* ---------------------------------------------------------------------------

\* How many times initTheme is called on one page
MaxListeners == 2

LIGHT == "light"
DARK == "dark"
SYSTEM == "system"

\* What getStoredTheme returns for no usable preference (null)
NoTheme == "null"

\* What localStorage.getItem returns for a key that holds nothing
NoItem == "absent"

\* document.querySelector finds no meta[name="theme-color"]
NoMeta == "absent"

\* The items the storage key can hold when the page loads
StoredItems == {NoItem, LIGHT, DARK, SYSTEM, "auto"}

\* localStorage as the browser offers it: every call works, setItem throws
\* (quota reached), or every call throws (storage blocked)
StorageModes == {"works", "readOnly", "blocked"}

\* The class lists the root element can have in the served markup
MarkupClassLists == SUBSET {LIGHT, DARK, "no-js"}

getSystemTheme == IF systemDark THEN DARK ELSE LIGHT

getStoredTheme ==
  IF storageMode = "blocked" THEN NoTheme
  ELSE IF localStorage \in {LIGHT, DARK, SYSTEM} THEN localStorage
  ELSE NoTheme

\* The item left under the key by storeTheme(theme)
storeTheme(theme) == IF storageMode = "works" THEN theme ELSE localStorage

\* applyTheme that adds the class of the theme and leaves the other one
applyTheme_AddOnly(theme) ==
  /\ classList' = classList \cup {theme}
  /\ metaThemeColor' =
       IF metaThemeColor = NoMeta THEN NoMeta
       ELSE IF theme = LIGHT THEN "#ffffff" ELSE "#111827"

applyTheme(theme) ==
  /\ classList' =
       IF theme = LIGHT THEN (classList \ {DARK}) \cup {LIGHT}
       ELSE (classList \ {LIGHT}) \cup {DARK}
  /\ metaThemeColor' =
       IF metaThemeColor = NoMeta THEN NoMeta
       ELSE IF theme = LIGHT THEN "#ffffff" ELSE "#111827"

getEffectiveTheme(preference) ==
  IF preference = SYSTEM THEN getSystemTheme ELSE preference

\* The page as the browser has it when the module is loaded
InitThemeManager ==
  /\ GeneratorOff
  /\ RebrandOff
  /\ classList \in MarkupClassLists
  /\ metaThemeColor \in {NoMeta, "#111827"}
  /\ localStorage \in StoredItems
  /\ storageMode \in StorageModes
  /\ systemDark \in BOOLEAN
  /\ listeners = 0
  /\ themechange = "none"

initTheme ==
  /\ storageMode # "off"
  /\ listeners < MaxListeners
  /\ LET stored == getStoredTheme
         preference == IF stored = NoTheme THEN DARK ELSE stored
     IN applyTheme(getEffectiveTheme(preference))
  /\ listeners' = listeners + 1
  /\ UNCHANGED <<generatorVars, rebrandVars, localStorage, storageMode, systemDark, themechange>>

toggleTheme ==
  /\ listeners > 0
  /\ LET isCurrentlyLight == LIGHT \in classList
         newTheme == IF isCurrentlyLight THEN DARK ELSE LIGHT
     IN /\ applyTheme(newTheme)
        /\ localStorage' = storeTheme(newTheme)
        /\ themechange' = newTheme
  /\ UNCHANGED <<generatorVars, rebrandVars, storageMode, systemDark, listeners>>

\* The system colour scheme changes; every listener added by initTheme runs
onSystemChange ==
  /\ storageMode # "off"
  /\ systemDark' = ~systemDark
  /\ LET storedPref == getStoredTheme
     IN IF listeners > 0 /\ storedPref \in {SYSTEM, NoTheme}
        THEN applyTheme(IF systemDark' THEN DARK ELSE LIGHT)
        ELSE UNCHANGED <<classList, metaThemeColor>>
  /\ UNCHANGED <<generatorVars, rebrandVars, localStorage, storageMode, listeners, themechange>>

NextTheme ==
  \/ initTheme
  \/ toggleTheme
  \/ onSystemChange

SpecTheme == InitThemeManager /\ [][NextTheme]_vars


\* The theme the root element shows: the one of light and dark it carries alone
Applied ==
  IF LIGHT \in classList /\ DARK \notin classList THEN LIGHT
  ELSE IF DARK \in classList /\ LIGHT \notin classList THEN DARK
  ELSE "neither"

\* C22 as stated: once initTheme has run the root carries exactly one of
\* light and dark, and a stored preference of light or dark is the applied
\* class, whatever toggles and system changes came before.
C22_AppliedIsStored ==
  listeners > 0 =>
    /\ Cardinality(classList \cap {LIGHT, DARK}) = 1
    /\ getStoredTheme \in {LIGHT, DARK} => Applied = getStoredTheme

\* A toggle flips the applied theme and announces it; the storage keeps it
\* when setItem is accepted and keeps its old item otherwise. A system change
\* alters the applied theme only under a preference of system or none.
ThemeStep ==
  /\ toggleTheme =>
       /\ Applied \in {LIGHT, DARK}
       /\ Applied' = (IF Applied = LIGHT THEN DARK ELSE LIGHT)
       /\ themechange' = Applied'
       /\ localStorage' = (IF storageMode = "works" THEN Applied' ELSE localStorage)
  /\ (onSystemChange /\ Applied' # Applied) =>
       /\ getStoredTheme \in {SYSTEM, NoTheme}
       /\ Applied' = (IF systemDark' THEN DARK ELSE LIGHT)

\* C22: once initTheme has run, after any toggles and system changes, the root
\* carries exactly one of light and dark; where localStorage accepts writes a
\* stored preference of light or dark is the applied class; each toggle flips
\* the applied theme and stores it if the write is accepted; a system change
\* alters the applied theme only while the preference is system or absent.
C22_ThemeFollowsAcceptedPreference ==
  /\ [](listeners > 0 =>
          /\ Cardinality(classList \cap {LIGHT, DARK}) = 1
          /\ (storageMode = "works" /\ getStoredTheme \in {LIGHT, DARK})
               => Applied = getStoredTheme)
  /\ [][ThemeStep]_vars

C22_Witness ==
  /\ listeners > 0
  /\ storageMode = "works"
  /\ themechange = DARK
  /\ localStorage = DARK
  /\ classList = {DARK, "no-js"}
  /\ metaThemeColor = "#111827"
  /\ ~systemDark

====
